---- MODULE Spec2Model ----
(***************************************************************************)
(* Bulk timesheet job fan-out of elevensys-cdk: the job creator (POST      *)
(* /jobs), the ticket worker (SQS batch handler) and the job status reader *)
(* (GET /jobs/status), sharing one DynamoDB job table and one SQS queue.   *)
(***************************************************************************)
EXTENDS Integers, Sequences, FiniteSets, TLC

(***************************************************************************)
(* Bounds of the model.                                                    *)
(***************************************************************************)
\* longest raw "dates" string a request carries
MaxDatesLen == 3
\* most tickets a request carries
MaxTickets == 2
\* largest counter value of a Job Record given to the status reader on its own
MaxCount == 40
\* largest maxRetries sendRequest is called with, beside its default
MaxRetries == 3
\* most clicks counted on one short URL
MaxClicks == 2

(***************************************************************************)
(* Program constants.                                                      *)
(***************************************************************************)
\* deadLetterQueue.maxReceiveCount of the ticket queue
maxReceiveCount == 2
\* SqsEventSource batchSize
batchSize == 10
\* sendRequest: the default of maxRetries
defaultMaxRetries == 10

\* the concurrent invocations of the ticket worker, and the sizes (dates x
\* tickets) of the job the processing specification follows
Workers == {"w1", "w2"}
JobSizes == {1, 2}
OnceSizes == {1, 2, 4}
JobIds == {"j1", "j2"}
NoRecord == [absent |-> TRUE]

(***************************************************************************)
(* parseDates: datesString.split(',').map(date => date.trim())             *)
(***************************************************************************)
DateChars == {"1", ",", " "}

RECURSIVE IndexOfComma(_, _)
IndexOfComma(s, i) ==
  IF i > Len(s) THEN 0
  ELSE IF s[i] = "," THEN i
  ELSE IndexOfComma(s, i + 1)

RECURSIVE split(_)
split(s) ==
  LET k == IndexOfComma(s, 1) IN
  IF k = 0 THEN <<s>>
  ELSE <<SubSeq(s, 1, k - 1)>> \o split(SubSeq(s, k + 1, Len(s)))

RECURSIVE trimStart(_)
trimStart(s) ==
  IF s # <<>> /\ Head(s) = " " THEN trimStart(Tail(s)) ELSE s

RECURSIVE trimEnd(_)
trimEnd(s) ==
  IF s # <<>> /\ s[Len(s)] = " " THEN trimEnd(SubSeq(s, 1, Len(s) - 1)) ELSE s

trim(s) == trimEnd(trimStart(s))

RECURSIVE dropEmpty(_)
dropEmpty(parts) ==
  IF parts = <<>> THEN <<>>
  ELSE IF Head(parts) = <<>> THEN dropEmpty(Tail(parts))
  ELSE <<Head(parts)>> \o dropEmpty(Tail(parts))

\* mutant: the empty tokens are filtered out
parseDates_dropEmpty(datesString) ==
  LET parts == dropEmpty(split(datesString)) IN
  [i \in 1..Len(parts) |-> trim(parts[i])]

parseDates(datesString) ==
  LET parts == split(datesString) IN
  [i \in 1..Len(parts) |-> trim(parts[i])]

(***************************************************************************)
(* Requests of POST /jobs.  A missing field and an empty string are both   *)
(* falsy for the handler's `!field` tests, so both are written "" (<<>>    *)
(* for the raw dates and for a missing Authorization header).  The         *)
(* Authorization header is a sequence whose first element may be the       *)
(* prefix "Bearer ".                                                       *)
(***************************************************************************)
GoodTicket == [ticketId |-> "AB-1", timeSpend |-> "2", description |-> "x",
               typeOfWork |-> "Dev"]
\* an element of the tickets array that is the JSON value null
NullTicket == [null |-> TRUE]
Tickets ==
  { GoodTicket,
    [GoodTicket EXCEPT !.ticketId = ""],
    [GoodTicket EXCEPT !.typeOfWork = ""],
    NullTicket }

SeqsUpTo(S, n) == UNION { [1..k -> S] : k \in 0..n }

AuthHeaders == { <<>>, <<"Bearer ">>, <<"Bearer ", "tok">>, <<"tok">> }
Usernames == { "", "alice" }
JiraInstances == { "", "jira3", "jira9", "jiradc", "jira1" }
TicketKinds == { "missing", "notArray", "array" }

Requests ==
  [ body : {"none", "garbage", "json"},
    authHeader : AuthHeaders,
    username : Usernames,
    dates : SeqsUpTo(DateChars, MaxDatesLen),
    jiraInstance : JiraInstances,
    ticketsKind : TicketKinds,
    tickets : SeqsUpTo(Tickets, MaxTickets) ]

\* a request is well formed when only a JSON body carries fields and only an
\* array carries tickets
WellFormed(r) ==
  /\ r.body # "json" =>
       /\ r.username = "" /\ r.dates = <<>> /\ r.jiraInstance = ""
       /\ r.ticketsKind = "missing"
  /\ r.ticketsKind # "array" => r.tickets = <<>>

AllRequests == { r \in Requests : WellFormed(r) }

(***************************************************************************)
(* responseUtils: createResponse and the common response patterns.         *)
(***************************************************************************)
NoData == [none |-> TRUE]

createResponse(statusCode, message, data) ==
  [statusCode |-> statusCode, message |-> message, data |-> data]

successResponse(message, data) == createResponse(200, message, data)
badRequestResponse(message) == createResponse(400, message, NoData)
notFoundResponse(message) == createResponse(404, message, NoData)
serverErrorResponse == createResponse(500, "Internal Server Error", NoData)

NoResponse == createResponse(0, "", NoData)

(***************************************************************************)
(* Job creator: the validation of the handler, in the order of the code.   *)
(* The result is the 400/500 response of the first failing check, or       *)
(* NoResponse when the request passes them all.                            *)
(***************************************************************************)
stripBearer(authHeader) ==
  IF authHeader # <<>> /\ Head(authHeader) = "Bearer "
  THEN Tail(authHeader) ELSE authHeader

invalidTickets(tickets) ==
  { i \in 1..Len(tickets) :
      \/ tickets[i] = NullTicket
      \/ tickets[i].ticketId = ""
      \/ tickets[i].timeSpend = ""
      \/ tickets[i].description = ""
      \/ tickets[i].typeOfWork = "" }

validate(r) ==
  IF r.body = "none" THEN badRequestResponse("Missing request body")
  ELSE IF r.authHeader = <<>>
    THEN badRequestResponse("Missing Authorization header")
  ELSE IF stripBearer(r.authHeader) = <<>>
    THEN badRequestResponse("Invalid Authorization header format")
  ELSE IF r.body = "garbage" THEN serverErrorResponse
  ELSE IF r.username = ""
    THEN badRequestResponse("Missing required field: username")
  ELSE IF r.dates = <<>>
    THEN badRequestResponse("Missing required field: dates")
  ELSE IF r.jiraInstance = ""
    THEN badRequestResponse("Missing required field: jiraInstance")
  ELSE IF r.jiraInstance \notin {"jira3", "jira9", "jiradc"}
    THEN badRequestResponse(
           "Invalid jiraInstance: must be, \"jira3\", \"jira9\", or \"jiradc\"")
  ELSE IF r.ticketsKind # "array"
    THEN badRequestResponse(
           "Missing or invalid tickets: must provide a tickets array")
  ELSE IF Len(r.tickets) = 0
    THEN badRequestResponse(
           "Empty tickets array: at least one ticket is required")
  \* the filter callback reads ticket.ticketId: a TypeError on null
  ELSE IF \E i \in 1..Len(r.tickets) : r.tickets[i] = NullTicket
    THEN serverErrorResponse
  ELSE IF invalidTickets(r.tickets) # {}
    THEN badRequestResponse(
           "Invalid ticket format: each ticket must have ticketId, timeSpend, description, and typeOfWork")
  ELSE NoResponse

Valid(r) == validate(r) = NoResponse

(***************************************************************************)
(* The job table.  A record is the item the job creator puts; the worker   *)
(* adds updatedAt (a flag here: the model has no clock).                   *)
(***************************************************************************)
newJobStatus(jobId, totalTasks) ==
  [ jobId |-> jobId, total |-> totalTasks, processed |-> 0, failed |-> 0,
    status |-> "in-progress", createdAt |-> "createdAt", errors |-> <<>>,
    updatedAt |-> FALSE ]

\* the work items of a request, in the order of the two nested loops
messageOf(r, jobId, dates, k) ==
  LET t == Len(r.tickets)
      di == ((k - 1) \div t) + 1
      ti == ((k - 1) % t) + 1
  IN [ jobId |-> jobId, username |-> r.username, date |-> dates[di],
       ticket |-> r.tickets[ti], token |-> stripBearer(r.authHeader),
       jiraInstance |-> r.jiraInstance ]

(***************************************************************************)
(* DynamoDB commands on one item.  An UpdateCommand whose expression reads *)
(* an attribute the item does not have is rejected (the command throws and *)
(* writes nothing); SET of a plain value upserts.                          *)
(***************************************************************************)
HasCounters(item) == item # NoRecord /\ "processed" \in DOMAIN item

\* mutant: the increment is conditional on processed < total
updateProcessed_capped(item) ==
  [item EXCEPT !.processed = IF @ < item.total THEN @ + 1 ELSE @,
               !.updatedAt = TRUE]

\* mutant: the new count is computed from a value read before the first
\* increment (a read-modify-write in the worker's memory)
updateProcessed_fromStaleRead(item) ==
  [item EXCEPT !.processed = 1, !.updatedAt = TRUE]

\* SET #processed = #processed + :inc, updatedAt = :now
updateProcessed(item) ==
  [item EXCEPT !.processed = @ + 1, !.updatedAt = TRUE]

\* mutant: errors is SET to the new entry, not appended to
updateFailed_overwrite(item, entry) ==
  [item EXCEPT !.failed = @ + 1, !.updatedAt = TRUE, !.errors = <<entry>>]

\* SET #failed = #failed + :inc, updatedAt = :now,
\*     #errors = list_append(if_not_exists(#errors, :empty_list), :error)
updateFailed(item, entry) ==
  [item EXCEPT !.failed = @ + 1, !.updatedAt = TRUE,
               !.errors = Append(@, entry)]

\* mutant: the status update also closes the job at the count reached
updateStatus_closesTotal(item, jobId, status) ==
  IF item = NoRecord
  THEN [jobId |-> jobId, status |-> status, updatedAt |-> TRUE]
  ELSE [item EXCEPT !.status = status, !.updatedAt = TRUE,
                    !.total = item.processed + item.failed]

\* mutant: the status update replaces the item by a fresh one (a PutCommand)
updateStatus_put(item, jobId, status) ==
  IF item = NoRecord
  THEN [jobId |-> jobId, status |-> status, updatedAt |-> TRUE]
  ELSE [newJobStatus(jobId, item.total) EXCEPT
          !.status = status, !.updatedAt = TRUE]

\* mutant: the expression of the increment was kept in the status update
updateStatus_andIncrement(item, jobId, status) ==
  IF item = NoRecord
  THEN [jobId |-> jobId, status |-> status, updatedAt |-> TRUE]
  ELSE [item EXCEPT !.status = status, !.updatedAt = TRUE,
                    !.processed = @ + 1]

\* SET #status = :status, updatedAt = :now
updateStatus(item, jobId, status) ==
  IF item = NoRecord
  THEN [jobId |-> jobId, status |-> status, updatedAt |-> TRUE]
  ELSE [item EXCEPT !.status = status, !.updatedAt = TRUE]

\* mutant: the completion test counts the item in hand once more
jobComplete_offByOne(item) ==
  /\ item # NoRecord
  /\ item.processed + item.failed + 1 >= item.total

\* mutant: the completion test asks for more than total
jobComplete_beyondTotal(item) ==
  /\ item # NoRecord
  /\ item.processed + item.failed > item.total

\* the worker's completion test on the item it has re-read
jobComplete(item) ==
  /\ item # NoRecord
  /\ item.processed + item.failed >= item.total

\* ':status': failed > 0 ? 'failed' : 'completed'
successStatus(item) == IF item.failed > 0 THEN "failed" ELSE "completed"

\* the entry appended to errors; its text is the message of the caught error
errorEntry(message) ==
  [ticketId |-> message.ticket.ticketId, date |-> message.date,
   error |-> "error.message"]

(***************************************************************************)
(* State.                                                                  *)
(*   store  the job table: jobId -> item or NoRecord                       *)
(*   queue  the ticket queue: message id -> every message the queue has    *)
(*          accepted, with its SQS state (visible, inflight, deleted,      *)
(*          dlq), its receive count and, as history, the outcome of the    *)
(*          last upstream call made for it                                 *)
(*   cr     the job creator invocation                                     *)
(*   wk     the ticket worker invocations                                  *)
(*   rd     the job status invocation                                      *)
(*   http   one call of sendRequest                                        *)
(*   urlTable, shorten, redirect, remove                                   *)
(*          the URL table, and the invocations of POST /shorten, of the    *)
(*          redirect handler and of DELETE /url/{shortCode}                *)
(***************************************************************************)
VARIABLES store, queue, cr, wk, rd, http, urlTable, shorten, redirect, remove

jobVars == <<store, queue, cr, wk, rd>>
urlVars == <<urlTable, shorten, redirect, remove>>
vars == <<jobVars, http, urlVars>>

NoRequest == [body |-> "none", authHeader |-> <<>>, username |-> "",
              dates |-> <<>>, jiraInstance |-> "", ticketsKind |-> "missing",
              tickets |-> <<>>]

IdleCreator ==
  [pc |-> "idle", req |-> NoRequest, jobId |-> "", dates |-> <<>>,
   total |-> 0, pending |-> {}, rejected |-> FALSE, resp |-> NoResponse]

IdleWorker == [pc |-> "idle", batch |-> <<>>, i |-> 1, st |-> ""]

IdleReader == [pc |-> "idle", jobId |-> "", resp |-> NoResponse]

IdleHttp == [pc |-> "idle", maxRetries |-> 0, attempt |-> 0, log |-> <<>>]

\* the short codes generateShortCode may return, the original URLs of the
\* requests ("" when the field is missing) and the concurrent invocations
Codes == {"c1", "c2"}
OriginalUrls == {"", "not a url", "https://a.example", "https://b.example"}
Shorteners == {"s1", "s2"}
Redirectors == {"r1"}
NoUrl == [absent |-> TRUE]

IdleShorten ==
  [pc |-> "idle", code |-> "", originalUrl |-> "", resp |-> NoResponse]
IdleRedirect == [pc |-> "idle", code |-> "", resp |-> NoResponse]
IdleRemove == [pc |-> "idle", code |-> "", resp |-> NoResponse]

\* nothing of sendRequest or of the URL shortener is running
RestIdle ==
  /\ http = IdleHttp
  /\ urlTable = [c \in Codes |-> NoUrl]
  /\ shorten = [p \in Shorteners |-> IdleShorten]
  /\ redirect = [p \in Redirectors |-> IdleRedirect]
  /\ remove = IdleRemove

Init ==
  /\ store = [j \in JobIds |-> NoRecord]
  /\ queue = <<>>
  /\ cr = IdleCreator
  /\ wk = [w \in Workers |-> IdleWorker]
  /\ rd = IdleReader
  /\ RestIdle

(***************************************************************************)
(* Job creator handler.  Create: validation, the PutCommand of the Job     *)
(* Record and the nested loops, which issue every SendMessageCommand       *)
(* without awaiting it.  Send: one of the pending sends settles            *)
(* (acknowledged or rejected), in any order.  Respond: Promise.all has     *)
(* settled: it resolves when every send is acknowledged and rejects at the *)
(* first rejection, with the other sends still pending; those settle after *)
(* the response.                                                           *)
(***************************************************************************)
\* mutant: a rejected PutCommand is not noticed and the sends go ahead
Create_putIgnored(r, jobId, putOk) ==
  /\ cr.pc = "idle"
  /\ store[jobId] = NoRecord
  /\ LET v == validate(r)
         dates == parseDates(r.dates)
         totalTasks == Len(dates) * Len(r.tickets)
     IN IF v # NoResponse
        THEN /\ cr' = [cr EXCEPT !.pc = "done", !.req = r, !.resp = v]
             /\ UNCHANGED store
        ELSE /\ store' = IF putOk
                         THEN [store EXCEPT
                                 ![jobId] = newJobStatus(jobId, totalTasks)]
                         ELSE store
             /\ cr' = [cr EXCEPT !.pc = "sending", !.req = r, !.jobId = jobId,
                                 !.dates = dates, !.total = totalTasks,
                                 !.pending = 1..totalTasks]
  /\ UNCHANGED <<queue, wk, rd, http, urlVars>>

Create(r, jobId, putOk) ==
  /\ cr.pc = "idle"
  /\ store[jobId] = NoRecord
  /\ LET v == validate(r)
         dates == parseDates(r.dates)
         totalTasks == Len(dates) * Len(r.tickets)
     IN IF v # NoResponse
        THEN /\ cr' = [cr EXCEPT !.pc = "done", !.req = r, !.resp = v]
             /\ UNCHANGED store
        ELSE IF ~putOk
        THEN /\ cr' = [cr EXCEPT !.pc = "done", !.req = r,
                                 !.resp = serverErrorResponse]
             /\ UNCHANGED store
        ELSE /\ store' = [store EXCEPT ![jobId] = newJobStatus(jobId, totalTasks)]
             /\ cr' = [cr EXCEPT !.pc = "sending", !.req = r, !.jobId = jobId,
                                 !.dates = dates, !.total = totalTasks,
                                 !.pending = 1..totalTasks]
  /\ UNCHANGED <<queue, wk, rd, http, urlVars>>

\* the id under which the queue keeps the k-th message of the job: the
\* messages it held before the job come first
messageId(k) ==
  k + Cardinality({ m \in DOMAIN queue : queue[m].body.jobId # cr.jobId })

\* the k-th SendMessageCommand settles, before or after the response
Send(k, sendOk) ==
  /\ cr.pc \in {"sending", "done"}
  /\ k \in cr.pending
  /\ IF sendOk
     THEN /\ queue' = (messageId(k) :>
                 [body |-> messageOf(cr.req, cr.jobId, cr.dates, k),
                  state |-> "visible", receives |-> 0, outcome |-> ""])
                      @@ queue
          /\ cr' = [cr EXCEPT !.pending = @ \ {k}]
     ELSE /\ cr' = [cr EXCEPT !.pending = @ \ {k}, !.rejected = TRUE]
          /\ UNCHANGED queue
  /\ UNCHANGED <<store, wk, rd, http, urlVars>>

\* await Promise.all(sendPromises) settles and the handler returns
Respond ==
  /\ cr.pc = "sending"
  /\ cr.rejected \/ cr.pending = {}
  /\ cr' = [cr EXCEPT !.pc = "done",
              !.resp = IF cr.rejected THEN serverErrorResponse
                       ELSE successResponse(
                              "Job created successfully. Processing started.",
                              [jobId |-> cr.jobId, total |-> cr.total])]
  /\ UNCHANGED <<store, queue, wk, rd, http, urlVars>>

(***************************************************************************)
(* The ticket queue and its Lambda event source.                           *)
(***************************************************************************)
Visible == { m \in DOMAIN queue : queue[m].state = "visible" }

Injective(b) == \A x, y \in 1..Len(b) : b[x] = b[y] => x = y

Min(a, b) == IF a < b THEN a ELSE b

\* the batches the event source may hand to one invocation
Batches ==
  { b \in SeqsUpTo(Visible, Min(Cardinality(Visible), batchSize)) :
      b # <<>> /\ Injective(b) }

InBatch(b, m) == \E x \in 1..Len(b) : b[x] = m

\* a message that was not deleted comes back, or goes to the dead-letter
\* queue once it has been received maxReceiveCount times
returned(msg) ==
  [msg EXCEPT !.state = IF msg.receives < maxReceiveCount
                        THEN "visible" ELSE "dlq"]

\* the handler returned: the event source deletes the batch
batchDeleted(b) ==
  [m \in DOMAIN queue |->
     IF InBatch(b, m) /\ queue[m].state = "inflight"
     THEN [queue[m] EXCEPT !.state = "deleted"] ELSE queue[m]]

\* the handler threw: the whole batch is returned to the queue
batchReturned(b) ==
  [m \in DOMAIN queue |->
     IF InBatch(b, m) /\ queue[m].state = "inflight"
     THEN returned(queue[m]) ELSE queue[m]]

Receive(w, b) ==
  /\ wk[w].pc = "idle"
  /\ b \in Batches
  /\ queue' = [m \in DOMAIN queue |->
                 IF InBatch(b, m)
                 THEN [queue[m] EXCEPT !.state = "inflight", !.receives = @ + 1]
                 ELSE queue[m]]
  /\ wk' = [wk EXCEPT ![w] = [IdleWorker EXCEPT !.pc = "send", !.batch = b]]
  /\ UNCHANGED <<store, cr, rd, http, urlVars>>

\* at-least-once delivery: a message in flight becomes visible again (its
\* visibility timeout ran out, or the queue delivers a second copy)
Redeliver(m) ==
  /\ m \in DOMAIN queue
  /\ queue[m].state = "inflight"
  /\ queue' = [queue EXCEPT ![m] = returned(queue[m])]
  /\ UNCHANGED <<store, cr, wk, rd, http, urlVars>>

(***************************************************************************)
(* Ticket worker: processRecord, one step per awaited call, and the loop   *)
(* of the handler over the batch.                                          *)
(***************************************************************************)
message(w) == queue[wk[w].batch[wk[w].i]].body

\* processRecord returned: the handler's loop sleeps
recordDone(w) ==
  /\ wk' = [wk EXCEPT ![w].pc = "sleep", ![w].st = ""]
  /\ UNCHANGED queue

\* await sleep(1000) is over: the next record of the batch, or the handler
\* returns and the event source deletes the batch
Sleep(w) ==
  /\ wk[w].pc = "sleep"
  /\ IF wk[w].i < Len(wk[w].batch)
     THEN /\ wk' = [wk EXCEPT ![w].pc = "send", ![w].i = @ + 1]
          /\ UNCHANGED queue
     ELSE /\ wk' = [wk EXCEPT ![w] = IdleWorker]
          /\ queue' = batchDeleted(wk[w].batch)
  /\ UNCHANGED <<store, cr, rd, http, urlVars>>

\* mutant: the exception is swallowed and the loop goes on
handlerThrows_swallowed(w) == recordDone(w)

\* an exception left processRecord and the handler
handlerThrows(w) ==
  /\ wk' = [wk EXCEPT ![w] = IdleWorker]
  /\ queue' = batchReturned(wk[w].batch)

\* a throw inside the try block: the catch block runs
caught(w) ==
  /\ wk' = [wk EXCEPT ![w].pc = "incFailed"]
  /\ UNCHANGED queue

\* await sendRequest(apiUrl, payload, headers)
Upstream(w, ok) ==
  /\ wk[w].pc = "send"
  /\ wk' = [wk EXCEPT ![w].pc = IF ok THEN "incProcessed" ELSE "incFailed"]
  /\ queue' = [queue EXCEPT ![wk[w].batch[wk[w].i]].outcome =
                                IF ok THEN "ok" ELSE "error"]
  /\ UNCHANGED <<store, cr, rd, http, urlVars>>

\* try: UpdateCommand incrementing processed
IncProcessed(w, ok) ==
  /\ wk[w].pc = "incProcessed"
  /\ LET j == message(w).jobId IN
     IF ok /\ HasCounters(store[j])
     THEN /\ store' = [store EXCEPT ![j] = updateProcessed(store[j])]
          /\ wk' = [wk EXCEPT ![w].pc = "getS"]
          /\ UNCHANGED queue
     ELSE /\ caught(w)
          /\ UNCHANGED store
  /\ UNCHANGED <<cr, rd, http, urlVars>>

\* try: GetCommand, then the completion test
GetS(w, ok) ==
  /\ wk[w].pc = "getS"
  /\ LET item == store[message(w).jobId] IN
     IF ~ok THEN caught(w)
     ELSE IF jobComplete(item)
     THEN /\ wk' = [wk EXCEPT ![w].pc = "setS", ![w].st = successStatus(item)]
          /\ UNCHANGED queue
     ELSE recordDone(w)
  /\ UNCHANGED <<store, cr, rd, http, urlVars>>

\* try: UpdateCommand setting status
SetS(w, ok) ==
  /\ wk[w].pc = "setS"
  /\ LET j == message(w).jobId IN
     IF ok
     THEN /\ store' = [store EXCEPT ![j] = updateStatus(store[j], j, wk[w].st)]
          /\ recordDone(w)
     ELSE /\ caught(w)
          /\ UNCHANGED store
  /\ UNCHANGED <<cr, rd, http, urlVars>>

\* mutant: the expression starts a missing counter at zero
\* (if_not_exists(#failed, :zero) + :inc), so the update creates the item
IncFailed_upsert(w, ok) ==
  /\ wk[w].pc = "incFailed"
  /\ LET j == message(w).jobId IN
     IF ok
     THEN /\ store' = [store EXCEPT
                 ![j] = IF HasCounters(store[j])
                        THEN updateFailed(store[j], errorEntry(message(w)))
                        ELSE [jobId |-> j, failed |-> 1, updatedAt |-> TRUE,
                              errors |-> <<errorEntry(message(w))>>]]
          /\ wk' = [wk EXCEPT ![w].pc = "getF"]
          /\ UNCHANGED queue
     ELSE /\ handlerThrows(w)
          /\ UNCHANGED store
  /\ UNCHANGED <<cr, rd, http, urlVars>>

\* catch: UpdateCommand incrementing failed and appending the error
IncFailed(w, ok) ==
  /\ wk[w].pc = "incFailed"
  /\ LET j == message(w).jobId IN
     IF ok /\ HasCounters(store[j])
     THEN /\ store' = [store EXCEPT
                 ![j] = updateFailed(store[j], errorEntry(message(w)))]
          /\ wk' = [wk EXCEPT ![w].pc = "getF"]
          /\ UNCHANGED queue
     ELSE /\ handlerThrows(w)
          /\ UNCHANGED store
  /\ UNCHANGED <<cr, rd, http, urlVars>>

\* catch: GetCommand, then the completion test
GetF(w, ok) ==
  /\ wk[w].pc = "getF"
  /\ LET item == store[message(w).jobId] IN
     IF ~ok THEN handlerThrows(w)
     ELSE IF jobComplete(item)
     THEN /\ wk' = [wk EXCEPT ![w].pc = "setF", ![w].st = "failed"]
          /\ UNCHANGED queue
     ELSE recordDone(w)
  /\ UNCHANGED <<store, cr, rd, http, urlVars>>

\* catch: UpdateCommand setting status to 'failed'
SetF(w, ok) ==
  /\ wk[w].pc = "setF"
  /\ LET j == message(w).jobId IN
     IF ok
     THEN /\ store' = [store EXCEPT ![j] = updateStatus(store[j], j, wk[w].st)]
          /\ recordDone(w)
     ELSE /\ handlerThrows(w)
          /\ UNCHANGED store
  /\ UNCHANGED <<cr, rd, http, urlVars>>

(***************************************************************************)
(* Numbers of the job status handler are IEEE 754 doubles.  A positive     *)
(* double is [e, f]: the exponent e and the 52 fraction bits f of its      *)
(* significand, four limbs of 13 bits, most significant first; its value   *)
(* is (1 + F / 2^52) * 2^e with F = ((f[1]*B + f[2])*B + f[3])*B + f[4].   *)
(* Operations round to nearest, ties to even.                              *)
(***************************************************************************)
LimbBits == 13
B == 8192

RECURSIVE Pow2(_)
Pow2(k) == IF k = 0 THEN 1 ELSE 2 * Pow2(k - 1)

\* the fraction plus one unit in the last place; a carry out of the first
\* limb is the significand 2.0, that is 1.0 with the exponent one higher
incFraction(e, f) ==
  LET s4 == f[4] + 1
      s3 == f[3] + (s4 \div B)
      s2 == f[2] + (s3 \div B)
      s1 == f[1] + (s2 \div B)
  IN IF s1 \div B = 1
     THEN [e |-> e + 1, f |-> <<0, 0, 0, 0>>]
     ELSE [e |-> e, f |-> <<s1 % B, s2 % B, s3 % B, s4 % B>>]

\* round to nearest even: guard is the first dropped bit, sticky whether a
\* later dropped bit is set
roundNearestEven(e, f, guard, sticky) ==
  IF guard = 1 /\ (sticky \/ f[4] % 2 = 1)
  THEN incFraction(e, f)
  ELSE [e |-> e, f |-> f]

\* the largest k with d * 2^k <= n (n >= d)
RECURSIVE shiftUp(_, _)
shiftUp(n, d) == IF 2 * d <= n THEN 1 + shiftUp(n, 2 * d) ELSE 0

\* the smallest k with n * 2^k >= d (n < d)
RECURSIVE shiftDown(_, _)
shiftDown(n, d) == IF n >= d THEN 0 ELSE 1 + shiftDown(2 * n, d)

\* the double n / t of two integers n >= 1, t >= 1: long division, 13 bits
\* of the quotient at a time
divide(n, t) ==
  LET e == IF n >= t THEN shiftUp(n, t) ELSE 0 - shiftDown(n, t)
      num == IF e < 0 THEN n * Pow2(0 - e) ELSE n
      den == IF e > 0 THEN t * Pow2(e) ELSE t
      r0 == num - den
      l1 == (r0 * B) \div den
      r1 == (r0 * B) % den
      l2 == (r1 * B) \div den
      r2 == (r1 * B) % den
      l3 == (r2 * B) \div den
      r3 == (r2 * B) % den
      l4 == (r3 * B) \div den
      r4 == (r3 * B) % den
      guard == IF 2 * r4 >= den THEN 1 ELSE 0
      sticky == 2 * r4 - guard * den > 0
  IN roundNearestEven(e, <<l1, l2, l3, l4>>, guard, sticky)

\* the double x * 100: the exact product has 7 or 8 bits before the binary
\* point, so 6 or 7 low bits are dropped
times100(x) ==
  LET p4 == x.f[4] * 100
      p3 == x.f[3] * 100 + (p4 \div B)
      p2 == x.f[2] * 100 + (p3 \div B)
      p1 == x.f[1] * 100 + (p2 \div B)
      top == 100 + (p1 \div B)
      s == IF top >= 128 THEN 7 ELSE 6
      low == Pow2(s)
      high == Pow2(LimbBits - s)
      shifted(hi, lo) == (hi % low) * high + (lo \div low)
      dropped == (p4 % B) % low
      guard == dropped \div Pow2(s - 1)
      sticky == dropped % Pow2(s - 1) > 0
  IN roundNearestEven(x.e + s,
       << shifted(top, p1 % B), shifted(p1 % B, p2 % B),
          shifted(p2 % B, p3 % B), shifted(p3 % B, p4 % B) >>,
       guard, sticky)

\* Math.round of a positive double below 2^12: the nearest integer, ties
\* upwards
mathRound(x) ==
  IF x.e < -1 THEN 0
  ELSE IF x.e = -1 THEN 1
  ELSE LET below == Pow2(LimbBits - x.e) IN
       Pow2(x.e) + (x.f[1] \div below) + ((x.f[1] \div (below \div 2)) % 2)

\* total > 0 ? Math.round(((processed + failed) / total) * 100) : 0
progressOf(total, processed, failed) ==
  IF total > 0 /\ processed + failed > 0
  THEN mathRound(times100(divide(processed + failed, total)))
  ELSE 0

(***************************************************************************)
(* Job status handler: one GetCommand, then the response.                  *)
(***************************************************************************)
\* jobStatus.x || dflt
orDefault(item, name, dflt) ==
  IF name \in DOMAIN item THEN item[name] ELSE dflt

\* mutant: the two counters are returned under each other's name
statusData_swapped(jobId, item) ==
  LET total == orDefault(item, "total", 0)
      processed == orDefault(item, "processed", 0)
      failed == orDefault(item, "failed", 0)
  IN [ jobId |-> jobId, total |-> total, processed |-> failed,
       failed |-> processed, status |-> orDefault(item, "status", "unknown"),
       progress |-> progressOf(total, processed, failed),
       errors |-> orDefault(item, "errors", <<>>),
       createdAt |-> orDefault(item, "createdAt", ""),
       updatedAt |-> orDefault(item, "updatedAt", FALSE) ]

statusData(jobId, item) ==
  LET total == orDefault(item, "total", 0)
      processed == orDefault(item, "processed", 0)
      failed == orDefault(item, "failed", 0)
  IN [ jobId |-> jobId, total |-> total, processed |-> processed,
       failed |-> failed, status |-> orDefault(item, "status", "unknown"),
       progress |-> progressOf(total, processed, failed),
       errors |-> orDefault(item, "errors", <<>>),
       createdAt |-> orDefault(item, "createdAt", ""),
       updatedAt |-> orDefault(item, "updatedAt", FALSE) ]

statusResponse(jobId, getOk) ==
  IF jobId = "" THEN badRequestResponse("Missing required query parameter: jobId")
  ELSE IF ~getOk THEN serverErrorResponse
  ELSE IF store[jobId] = NoRecord THEN notFoundResponse("Job " \o jobId \o " not found")
  ELSE successResponse("Job status retrieved successfully",
                       statusData(jobId, store[jobId]))

StatusRequest(jobId, getOk) ==
  /\ rd.pc = "idle"
  /\ rd' = [pc |-> "done", jobId |-> jobId,
            resp |-> statusResponse(jobId, getOk)]
  /\ UNCHANGED <<store, queue, cr, wk, http, urlVars>>

StatusReturn ==
  /\ rd.pc = "done"
  /\ rd' = IdleReader
  /\ UNCHANGED <<store, queue, cr, wk, http, urlVars>>

(***************************************************************************)
(* httpUtils.sendRequest: POST with retries.  The status of an attempt is  *)
(* the HTTP status of the response; 0 stands for an attempt that ends      *)
(* without a response (network error, timeout): error.response is          *)
(* undefined.  axios resolves for a 2xx status and rejects otherwise.      *)
(***************************************************************************)
Statuses == {0, 200, 400, 429, 500}

resolves(status) == status \in 200..299

\* mutant: every rejected attempt that has a response is retried
shouldRetry_anyResponse(status, attempt, maxRetries) ==
  status # 0 /\ attempt < maxRetries

\* (isRateLimitError || isServerError) && attempt < maxRetries
shouldRetry(status, attempt, maxRetries) ==
  (status = 429 \/ status >= 500) /\ attempt < maxRetries

\* sendRequest(url, payload, headers, maxRetries): the loop starts
SendRequest(maxRetries) ==
  /\ http.pc = "idle"
  /\ http' = [pc |-> IF 0 <= maxRetries THEN "posting" ELSE "threw",
              maxRetries |-> maxRetries, attempt |-> 0, log |-> <<>>]
  /\ UNCHANGED <<jobVars, urlVars>>

\* await axios.post(...) settles with `status`
Post(status) ==
  /\ http.pc = "posting"
  /\ http' = [http EXCEPT
       !.log = Append(@, status),
       !.pc = IF resolves(status) THEN "returned"
              ELSE IF shouldRetry(status, http.attempt, http.maxRetries)
              THEN "sleeping" ELSE "threw"]
  /\ UNCHANGED <<jobVars, urlVars>>

\* await sleep(delay) is over: attempt++ and the test of the loop
Backoff ==
  /\ http.pc = "sleeping"
  /\ http' = [http EXCEPT
       !.attempt = @ + 1,
       !.pc = IF http.attempt + 1 <= http.maxRetries
              THEN "posting" ELSE "threw"]
  /\ UNCHANGED <<jobVars, urlVars>>

(***************************************************************************)
(* URL shortener.  urlTable maps a short code (the key URL#code, METADATA) *)
(* to its item, or to NoUrl.  generateShortCode draws random bytes: the    *)
(* code of a creation is any element of Codes.                             *)
(***************************************************************************)
createdResponse(text, data) == createResponse(201, text, data)

\* new URL(url) does not throw
isValidUrl(url) == url \in {"https://a.example", "https://b.example"}

\* the item createShortUrl writes (no ttlDays, no createdBy)
urlData(shortCode, originalUrl) ==
  [PK |-> shortCode, ShortCode |-> shortCode, OriginalUrl |-> originalUrl,
   Clicks |-> 0, EntityType |-> "URL"]

\* mutant: the put carries no condition
conditionAllows_always(item) == TRUE

\* ConditionExpression: 'attribute_not_exists(PK)'
conditionAllows(item) == item = NoUrl

shortenError ==
  createResponse(500, "An error occurred while processing your request",
                 NoData)

\* POST /shorten up to the put: the body checks, isValidUrl and
\* generateShortCode
ShortenStart(p, originalUrl, shortCode) ==
  /\ shorten[p].pc = "idle"
  /\ shorten' = [shorten EXCEPT ![p] =
       IF originalUrl = ""
       THEN [pc |-> "done", code |-> "", originalUrl |-> originalUrl,
             resp |-> badRequestResponse(
                        "Missing required field: originalUrl")]
       ELSE IF ~isValidUrl(originalUrl)
       THEN [pc |-> "done", code |-> "", originalUrl |-> originalUrl,
             resp |-> badRequestResponse("Invalid URL format")]
       ELSE [pc |-> "putting", code |-> shortCode,
             originalUrl |-> originalUrl, resp |-> NoResponse]]
  /\ UNCHANGED <<jobVars, http, urlTable, redirect, remove>>

\* the conditional PutItemCommand and the response of the handler; putOk
\* is FALSE when the store fails for another reason than the condition
ShortenPut(p, putOk) ==
  /\ shorten[p].pc = "putting"
  /\ LET code == shorten[p].code
         written == putOk /\ conditionAllows(urlTable[code])
     IN /\ urlTable' =
             IF written
             THEN [urlTable EXCEPT
                     ![code] = urlData(code, shorten[p].originalUrl)]
             ELSE urlTable
        /\ shorten' = [shorten EXCEPT ![p].pc = "done", ![p].resp =
             IF written
             THEN createdResponse("URL shortened successfully",
                    [shortCode |-> code,
                     originalUrl |-> shorten[p].originalUrl])
             ELSE shortenError]
  /\ UNCHANGED <<jobVars, http, redirect, remove>>

ShortenReturn(p) ==
  /\ shorten[p].pc = "done"
  /\ shorten' = [shorten EXCEPT ![p] = IdleShorten]
  /\ UNCHANGED <<jobVars, http, urlTable, redirect, remove>>

clicksOf(item) == IF "Clicks" \in DOMAIN item THEN item.Clicks ELSE 0

\* click increments of redirects already answered, not yet applied
pendingClicks(code) ==
  Cardinality({ r \in Redirectors :
                  redirect[r].pc = "clicking" /\ redirect[r].code = code })

\* redirect handler: getUrlByShortCode and the response; with a record found
\* the 301 is returned while incrementClicks is still pending
Lookup(r, shortCode, getOk) ==
  /\ redirect[r].pc = "idle"
  /\ LET item == urlTable[shortCode]
     IN /\ item # NoUrl /\ getOk =>
             clicksOf(item) + pendingClicks(shortCode) < MaxClicks
        /\ redirect' = [redirect EXCEPT ![r] =
             IF ~getOk
             THEN [pc |-> "done", code |-> shortCode,
                   resp |-> notFoundResponse("Short URL not found")]
             ELSE IF item = NoUrl
             THEN [pc |-> "done", code |-> shortCode,
                   resp |-> notFoundResponse(
                              "Short URL not found: " \o shortCode)]
             ELSE [pc |-> "clicking", code |-> shortCode,
                   resp |-> createResponse(301, "",
                     [Location |-> IF "OriginalUrl" \in DOMAIN item
                                   THEN item.OriginalUrl
                                   ELSE "undefined"])]]
  /\ UNCHANGED <<jobVars, http, urlTable, shorten, remove>>

\* SET Clicks = if_not_exists(Clicks, :zero) + :inc, LastAccessed = :timestamp
\* on the key of shortCode: the update has no condition, so it creates the
\* item when there is none
incrementClicks(item, shortCode) ==
  LET old == IF item = NoUrl THEN [PK |-> shortCode] ELSE item
  IN [Clicks |-> clicksOf(old) + 1, LastAccessed |-> TRUE] @@ old

\* the un-awaited incrementClicks runs; with ok FALSE it fails (the error is
\* logged) or the environment is frozen before it is sent
Click(r, ok) ==
  /\ redirect[r].pc = "clicking"
  /\ urlTable' =
       IF ok
       THEN [urlTable EXCEPT ![redirect[r].code] =
               incrementClicks(@, redirect[r].code)]
       ELSE urlTable
  /\ redirect' = [redirect EXCEPT ![r] = IdleRedirect]
  /\ UNCHANGED <<jobVars, http, shorten, remove>>

RedirectReturn(r) ==
  /\ redirect[r].pc = "done"
  /\ redirect' = [redirect EXCEPT ![r] = IdleRedirect]
  /\ UNCHANGED <<jobVars, http, urlTable, shorten, remove>>

\* DELETE /url/{shortCode}: deleteUrl with ConditionExpression
\* 'attribute_exists(PK)' and the response
DeleteUrl(shortCode, deleteOk) ==
  /\ remove.pc = "idle"
  /\ LET deleted == deleteOk /\ urlTable[shortCode] # NoUrl
     IN /\ urlTable' = IF deleted
                       THEN [urlTable EXCEPT ![shortCode] = NoUrl]
                       ELSE urlTable
        /\ remove' = [pc |-> "done", code |-> shortCode, resp |->
             IF ~deleteOk THEN shortenError
             ELSE IF ~deleted
             THEN notFoundResponse("Short URL not found: " \o shortCode)
             ELSE successResponse("URL deleted successfully",
                    [shortCode |-> shortCode, deleted |-> TRUE])]
  /\ UNCHANGED <<jobVars, http, shorten, redirect>>

DeleteReturn ==
  /\ remove.pc = "done"
  /\ remove' = IdleRemove
  /\ UNCHANGED <<jobVars, http, urlTable, shorten, redirect>>

(***************************************************************************)
(* Specifications.                                                         *)
(*   Spec          one job through the creator, the workers and the reader *)
(*   SpecStatus    the reader beside one job and one worker invocation     *)
(*   SpecAdmit     the job creator on every request                        *)
(*   SpecProgress  the job status handler on Job Records of every count    *)
(*   SpecOrphan    one invocation at a time on one job and on a message    *)
(*                 whose job has no record                                 *)
(*   SpecSend      one call of sendRequest                                 *)
(*   SpecUrl       the URL shortener: shorten, redirect, delete            *)
(*   SpecOnce      one job whose messages are each delivered once, with no *)
(*                 store error, under fair scheduling                      *)
(***************************************************************************)
\* the valid requests of the processing specification: every date is "1",
\* one complete ticket, a job of one of the JobSizes
\* the requests with a bearer token, the selector jiradc and complete tickets
BearerRequests ==
  [ body : {"json"},
    authHeader : {<<"Bearer ", "tok">>},
    username : Usernames,
    dates : SeqsUpTo(DateChars, MaxDatesLen),
    jiraInstance : {"jiradc"},
    ticketsKind : {"array"},
    tickets : SeqsUpTo({GoodTicket}, MaxTickets) ]

JobRequests ==
  { r \in BearerRequests :
      /\ Valid(r)
      /\ \A i \in 1..Len(r.dates) : r.dates[i] = (IF i % 2 = 1 THEN "1" ELSE ",")
      /\ Len(r.dates) % 2 = 1
      /\ Len(r.tickets) = 1
      /\ Len(parseDates(r.dates)) * Len(r.tickets) \in JobSizes }

Creator(requests, ids) ==
  \/ /\ cr.pc = "idle"
     /\ \E r \in requests, j \in ids, putOk \in BOOLEAN : Create(r, j, putOk)
  \/ \E k \in cr.pending, sendOk \in BOOLEAN : Send(k, sendOk)
  \/ Respond

Queue(workers) ==
  \/ \E w \in workers : \E b \in Batches : Receive(w, b)
  \/ \E m \in DOMAIN queue : Redeliver(m)

Worker(workers) ==
  \/ \E w \in workers, ok \in BOOLEAN :
       \/ Upstream(w, ok)
       \/ IncProcessed(w, ok)
       \/ GetS(w, ok)
       \/ SetS(w, ok)
       \/ IncFailed(w, ok)
       \/ GetF(w, ok)
       \/ SetF(w, ok)
  \/ \E w \in workers : Sleep(w)

Reader ==
  \/ \E j \in JobIds \cup {""}, getOk \in BOOLEAN : StatusRequest(j, getOk)
  \/ StatusReturn

Next == Creator(JobRequests, {"j1"}) \/ Queue(Workers) \/ Worker(Workers)

Spec == Init /\ [][Next]_vars

\* one worker invocation at a time beside the reader
NextStatus ==
  Creator(JobRequests, {"j1"}) \/ Queue({"w1"}) \/ Worker({"w1"}) \/ Reader

SpecStatus == Init /\ [][NextStatus]_vars

NextAdmit == Creator(AllRequests, JobIds)

SpecAdmit == Init /\ [][NextAdmit]_vars

\* every message is enqueued and delivered once, every store command is
\* acknowledged, and every invocation that can take a step eventually does
WorkerOnce(workers) ==
  \E w \in workers :
    \/ \E ok \in BOOLEAN : Upstream(w, ok)
    \/ IncProcessed(w, TRUE)
    \/ GetS(w, TRUE)
    \/ SetS(w, TRUE)
    \/ IncFailed(w, TRUE)
    \/ GetF(w, TRUE)
    \/ SetF(w, TRUE)
    \/ Sleep(w)

\* its requests: one or two dates "1" and one or two complete tickets
OnceRequests ==
  { r \in BearerRequests :
      /\ Valid(r)
      /\ \A i \in 1..Len(r.dates) : r.dates[i] = (IF i % 2 = 1 THEN "1" ELSE ",")
      /\ Len(r.dates) % 2 = 1
      /\ Len(parseDates(r.dates)) * Len(r.tickets) \in OnceSizes }

NextOnce ==
  \/ /\ cr.pc = "idle"
     /\ \E r \in OnceRequests : Create(r, "j1", TRUE)
  \/ \E k \in cr.pending : Send(k, TRUE)
  \/ Respond
  \/ \E w \in Workers : \E b \in Batches : Receive(w, b)
  \/ WorkerOnce(Workers)

SpecOnce == Init /\ [][NextOnce]_vars /\ WF_vars(NextOnce)

\* one call of sendRequest, with maxRetries small or the default
NextSend ==
  \/ \E maxRetries \in (0..MaxRetries) \cup {defaultMaxRetries} :
       SendRequest(maxRetries)
  \/ \E status \in Statuses : Post(status)
  \/ Backoff

\* every attempt settles (axios has a timeout) and every sleep ends
SpecSend == Init /\ [][NextSend]_vars /\ WF_vars(NextSend)

\* the URL shortener: creations, redirects and deletions interleaved
NextUrl ==
  \/ \E p \in Shorteners, u \in OriginalUrls, c \in Codes :
       ShortenStart(p, u, c)
  \/ \E p \in Shorteners, putOk \in BOOLEAN : ShortenPut(p, putOk)
  \/ \E p \in Shorteners : ShortenReturn(p)
  \/ \E r \in Redirectors, c \in Codes, getOk \in BOOLEAN : Lookup(r, c, getOk)
  \/ \E r \in Redirectors, ok \in BOOLEAN : Click(r, ok)
  \/ \E r \in Redirectors : RedirectReturn(r)
  \/ \E c \in Codes, deleteOk \in BOOLEAN : DeleteUrl(c, deleteOk)
  \/ DeleteReturn

SpecUrl == Init /\ [][NextUrl]_vars

\* a message of a job that has no record is on the queue beside one job
OrphanMessage ==
  [ body |-> [ jobId |-> "j2", username |-> "alice", date |-> <<"1">>,
               ticket |-> GoodTicket, token |-> <<"tok">>,
               jiraInstance |-> "jiradc" ],
    state |-> "visible", receives |-> 0, outcome |-> "" ]

InitOrphan ==
  /\ store = [j \in JobIds |-> NoRecord]
  /\ queue = <<OrphanMessage>>
  /\ cr = IdleCreator
  /\ wk = [w \in Workers |-> IdleWorker]
  /\ rd = IdleReader
  /\ RestIdle

\* the job beside it has one item
NextOrphan ==
  \/ Creator({ r \in JobRequests : Len(r.dates) = 1 }, {"j1"})
  \/ Queue({"w1"})
  \/ Worker({"w1"})

SpecOrphan == InitOrphan /\ [][NextOrphan]_vars

\* a Job Record of a job of `total` items with the counters and the status
\* given
recordOf(jobId, total, processed, failed, status) ==
  [ newJobStatus(jobId, total) EXCEPT
      !.processed = processed, !.failed = failed,
      !.status = status,
      !.errors = [i \in 1..failed |-> errorEntry(
                    [ticket |-> GoodTicket, date |-> <<"1">>])],
      !.updatedAt = processed + failed > 0 ]

\* the statuses a record with these counters may carry: a terminal status
\* is written only by an invocation that read processed + failed >= total,
\* 'completed' after an increment of processed, 'failed' with failed > 0
statusesOf(total, processed, failed) ==
  {"in-progress"}
    \cup (IF processed + failed >= total /\ processed > 0
          THEN {"completed"} ELSE {})
    \cup (IF processed + failed >= total /\ failed > 0
          THEN {"failed"} ELSE {})

\* the records the workers can leave: a message is received up to
\* maxReceiveCount times and each invocation adds at most one to each counter
InitProgress ==
  /\ \E total \in 1..MaxCount :
       \E processed \in 0..Min(maxReceiveCount * total, MaxCount) :
         \E failed \in 0..Min(maxReceiveCount * total, MaxCount) :
           \E status \in statusesOf(total, processed, failed) :
             store = [j \in JobIds |->
                        IF j = "j1"
                        THEN recordOf(j, total, processed, failed, status)
                        ELSE NoRecord]
  /\ queue = <<>>
  /\ cr = IdleCreator
  /\ wk = [w \in Workers |-> IdleWorker]
  /\ rd = IdleReader
  /\ RestIdle

NextProgress == Reader

SpecProgress == InitProgress /\ [][NextProgress]_vars

(***************************************************************************)
(* Properties.                                                             *)
(***************************************************************************)
Terminal == {"completed", "failed"}

Records == { j \in JobIds : HasCounters(store[j]) }

\* the number of date tokens of a raw dates string: one more than its commas
tokenCount(raw) == Cardinality({ i \in 1..Len(raw) : raw[i] = "," }) + 1

\* the creator has returned from a valid request whose PutCommand and
\* SendMessageCommands were all acknowledged
Admitted ==
  /\ cr.pc = "done"
  /\ Valid(cr.req)
  /\ cr.jobId \in JobIds
  /\ ~cr.rejected

\* C1: a valid request with d date tokens and t tickets whose store write and
\* enqueues are all acknowledged leaves a Job Record with total = d*t and
\* exactly d*t messages on the queue, the message of the pair (date di,
\* ticket ti) carrying that date, that ticket and the jobId of the record.
C1_TotalAndMessages ==
  Admitted =>
    LET d == tokenCount(cr.req.dates)
        t == Len(cr.req.tickets)
        dates == parseDates(cr.req.dates)
    IN /\ HasCounters(store[cr.jobId])
       /\ store[cr.jobId].jobId = cr.jobId
       /\ store[cr.jobId].total = d * t
       /\ DOMAIN queue = 1..(d * t)
       /\ \A di \in 1..d, ti \in 1..t :
            LET body == queue[(di - 1) * t + ti].body IN
            /\ body.jobId = cr.jobId
            /\ body.date = dates[di]
            /\ body.ticket = cr.req.tickets[ti]

\* two dates, one of them an empty token, and two tickets: four messages
C1_Witness ==
  /\ Admitted
  /\ tokenCount(cr.req.dates) = 2
  /\ Len(cr.req.tickets) = 2
  /\ Cardinality(DOMAIN queue) = 4
  /\ \E k \in 1..4 : queue[k].body.date = <<>>

\* C2: in every reachable state of a Job Record, processed + failed <= total.
C2_CountersBounded ==
  \A j \in Records : store[j].processed + store[j].failed <= store[j].total

\* C3: once the status of a Job Record is completed or failed, no step
\* changes it.
C3_TerminalStable ==
  [][\A j \in Records :
       store[j].status \in Terminal => store'[j].status = store[j].status]_vars

\* C4 as stated: status is terminal if and only if processed + failed equals
\* total.
C4_TerminalIffAllCounted ==
  \A j \in Records :
    store[j].status \in Terminal
      <=> store[j].processed + store[j].failed = store[j].total

\* C4 as amended: a terminal status implies that processed + failed has
\* reached total.
C4_TerminalImpliesAllCounted ==
  \A j \in Records :
    store[j].status \in Terminal
      => store[j].processed + store[j].failed >= store[j].total

\* a job of two items that is terminal after one success and one failure
C4_Witness ==
  \E j \in Records :
    /\ store[j].total = 2
    /\ store[j].status \in Terminal
    /\ store[j].processed = 1
    /\ store[j].failed = 1

\* every message of the queue has been received at most once
ExactlyOnce == \A m \in DOMAIN queue : queue[m].receives <= 1

\* C5: when every message is processed exactly once, a terminal status is
\* completed if and only if failed = 0 (and failed if and only if failed > 0).
C5_StatusMatchesFailed ==
  ExactlyOnce =>
    \A j \in Records :
      store[j].status \in Terminal
        => /\ store[j].status = "completed" <=> store[j].failed = 0
           /\ store[j].status = "failed" <=> store[j].failed > 0

\* C6: no step decreases processed or failed of a Job Record, and a step
\* that changes one of them is the increment by one of a worker that is at
\* its UpdateCommand for a message of that job.
C6_CountersMonotone ==
  [][\A j \in Records :
       /\ HasCounters(store'[j])
       /\ store'[j].processed >= store[j].processed
       /\ store'[j].failed >= store[j].failed
       /\ store'[j].processed # store[j].processed =>
            /\ store'[j].processed = store[j].processed + 1
            /\ store'[j].failed = store[j].failed
            /\ \E w \in Workers :
                 /\ wk[w].pc = "incProcessed"
                 /\ message(w).jobId = j
                 /\ wk'[w].pc = "getS"
       /\ store'[j].failed # store[j].failed =>
            /\ store'[j].failed = store[j].failed + 1
            /\ store'[j].processed = store[j].processed
            /\ \E w \in Workers :
                 /\ wk[w].pc = "incFailed"
                 /\ message(w).jobId = j
                 /\ wk'[w].pc = "getF"]_vars

\* both counters have been incremented and the status written, and a worker
\* has just incremented again
C6_Witness ==
  \E j \in Records :
    /\ store[j].processed >= 1
    /\ store[j].failed >= 1
    /\ store[j].status \in Terminal
    /\ \E w \in Workers : wk[w].pc \in {"getS", "getF"}

\* a worker is about to issue the status update with the value it computed
StatusWritePending(w) == wk[w].pc \in {"setS", "setF"}

\* the status the specification computes from the counts of a finished job
statusFromCounts(item) ==
  IF item.failed = 0 THEN "completed" ELSE "failed"

\* worker w reads the item in this step and decides to write the status
StatusDecided(w) ==
  wk[w].pc \in {"getS", "getF"} /\ wk'[w].pc \in {"setS", "setF"}

\* worker w's status update is acknowledged in this step
StatusWritten(w) == StatusWritePending(w) /\ wk'[w].pc = "sleep"

\* the attributes of the item that the status update must leave alone
exceptStatus(item) ==
  [a \in DOMAIN item \ {"status", "updatedAt"} |-> item[a]]

\* C7: the status update is idempotent.  The value an invocation decides to
\* write is the one computed from the counts it has just read (completed if
\* failed = 0, else failed), on the success path and on the failure path
\* alike, so invocations that read the same counts write the same value;
\* every acknowledged update leaves status equal to the value decided and
\* changes nothing of the item but status and updatedAt, so issuing it
\* again for the same counts leaves status and counts as issuing it once.
C7_StatusWriteIdempotent ==
  [][\A w \in Workers :
       LET j == message(w).jobId IN
       /\ StatusDecided(w) =>
            /\ HasCounters(store[j])
            /\ store[j].processed + store[j].failed >= store[j].total
            /\ wk'[w].st = statusFromCounts(store[j])
       /\ StatusWritten(w) =>
            /\ store'[j].status = wk[w].st
            /\ exceptStatus(store'[j]) = exceptStatus(store[j])
            /\ store[j].status = wk[w].st => store'[j].status = store[j].status
            /\ \A k \in JobIds \ {j} : store'[k] = store[k]
       /\ (StatusWritePending(w) /\ wk'[w].pc = wk[w].pc) =>
            wk'[w].st = wk[w].st]_vars

\* the final counts of a job of two items, one success and one failure, each
\* message received once: the invocation of the failed item has written
\* 'failed' from them, and the invocation of the other item, which read the
\* same counts on the success path, is about to write the same value again
C7_Witness ==
  \E v, w \in Workers :
    /\ wk[w].pc = "setS" /\ wk[v].pc = "sleep"
    /\ message(v).jobId = message(w).jobId
    /\ queue[wk[v].batch[wk[v].i]].outcome = "error"
    /\ queue[wk[w].batch[wk[w].i]].outcome = "ok"
    /\ store[message(w).jobId].total = 2
    /\ store[message(w).jobId].processed = 1
    /\ store[message(w).jobId].failed = 1
    /\ store[message(w).jobId].status = "failed"
    /\ wk[w].st = "failed"
    /\ ExactlyOnce

\* round(100 * n / total), halves upwards, in exact arithmetic
roundedPercent(n, total) == (200 * n + total) \div (2 * total)

\* the reader has answered 200 for a Job Record
StatusRead ==
  /\ rd.pc = "done"
  /\ rd.resp.statusCode = 200

\* C8: the progress the Job Status Reader returns is in [0,100] and equals
\* round(100*(processed+failed)/total), and 0 when total = 0.
C8_Progress ==
  StatusRead =>
    LET item == store[rd.jobId]
        progress == rd.resp.data.progress
    IN /\ progress \in 0..100
       /\ item.total = 0 => progress = 0
       /\ item.total > 0 =>
            progress = roundedPercent(item.processed + item.failed, item.total)

\* the fields of the response that C9 names equal those of the item
snapshotOf(data, item) ==
  /\ data.total = item.total
  /\ data.processed = item.processed
  /\ data.failed = item.failed
  /\ data.status = item.status
  /\ data.errors = item.errors

\* the step in which the job status handler answers a request for jobId j
Answers(j) == rd.pc = "idle" /\ rd'.pc = "done" /\ rd'.jobId = j

\* C9 as stated: GET /jobs/status answers 404 for a jobId without a Job
\* Record and the fields of the record for a jobId with one, and writes
\* nothing.
C9_StatusSnapshot ==
  [][\A j \in JobIds :
       Answers(j) =>
         /\ store' = store
         /\ store[j] = NoRecord => rd'.resp.statusCode = 404
         /\ store[j] # NoRecord =>
              /\ rd'.resp.statusCode = 200
              /\ snapshotOf(rd'.resp.data, store[j])]_vars

\* C9 as amended: the same, unless the GetCommand throws, and then the
\* answer is 500; nothing is written in either case.
C9_StatusSnapshotIfRead ==
  [][\A j \in JobIds :
       Answers(j) =>
         /\ store' = store
         /\ \/ rd'.resp.statusCode = 500
            \/ /\ store[j] = NoRecord
               /\ rd'.resp.statusCode = 404
            \/ /\ store[j] # NoRecord
               /\ rd'.resp.statusCode = 200
               /\ snapshotOf(rd'.resp.data, store[j])]_vars

\* the reader has answered with the record of a job that a worker has
\* updated twice: one success, one failure, status failed
C9_Witness ==
  /\ StatusRead
  /\ rd.resp.data.processed = 1
  /\ rd.resp.data.failed = 1
  /\ Len(rd.resp.data.errors) = 1
  /\ rd.resp.data.status = "failed"
  /\ snapshotOf(rd.resp.data, store[rd.jobId])

\* C10: a valid POST /jobs request whose store write and enqueues all
\* succeed is answered 201 with the new jobId and total = d*t.
C10_Created ==
  Admitted =>
    /\ cr.resp.statusCode = 201
    /\ cr.resp.data.jobId = cr.jobId
    /\ cr.resp.data.total
         = tokenCount(cr.req.dates) * Len(cr.req.tickets)

\* the job creator has answered
Answered == cr.pc = "done"

NothingWritten == (\A j \in JobIds : store[j] = NoRecord) /\ queue = <<>>

\* C11: whatever the request and the outcome of the store write and of the
\* enqueues, the answer of POST /jobs is a 201 carrying a job id or a 400.
C11_CreatedOrBadRequest ==
  Answered =>
    \/ cr.resp.statusCode = 400
    \/ /\ cr.resp.statusCode = 201
       /\ cr.resp.data # NoData
       /\ cr.resp.data.jobId \in JobIds

\* the credential is missing, or empty once the prefix is stripped
NoCredential(r) == r.authHeader = <<>> \/ stripBearer(r.authHeader) = <<>>

\* a ticket lacks one of its four fields
LacksField(ticket) ==
  \E f \in {"ticketId", "timeSpend", "description", "typeOfWork"} :
    f \notin DOMAIN ticket \/ ticket[f] = ""

\* the checks of the fields of a parsed body, as the specification lists them
FailsUsername(r) == r.body = "json" /\ r.username = ""
FailsDates(r) == r.body = "json" /\ r.dates = <<>>
FailsSelector(r) ==
  r.body = "json" /\ r.jiraInstance \notin {"jira3", "jira9", "jiradc"}
FailsTickets(r) ==
  /\ r.body = "json"
  /\ \/ r.ticketsKind # "array"
     \/ r.tickets = <<>>
     \/ \E i \in 1..Len(r.tickets) : LacksField(r.tickets[i])

\* C12: a request that fails a validation check (credential, username,
\* dates, selector, tickets) is answered 400, and no Job Record is written
\* and no message enqueued.
C12_InvalidRejected ==
  ( /\ Answered
    /\ \/ NoCredential(cr.req) \/ FailsUsername(cr.req) \/ FailsDates(cr.req)
       \/ FailsSelector(cr.req) \/ FailsTickets(cr.req) )
  => /\ cr.resp.statusCode = 400
     /\ NothingWritten

\* the checks in the order of the specification, and the first one a
\* request fails ("none" when it passes them all)
CheckOrder ==
  <<"body", "credential", "username", "dates", "selector", "tickets">>

FailsCheck(r, c) ==
  CASE c = "body" -> r.body # "json"
    [] c = "credential" -> NoCredential(r)
    [] c = "username" -> FailsUsername(r)
    [] c = "dates" -> FailsDates(r)
    [] c = "selector" -> FailsSelector(r)
    [] c = "tickets" -> FailsTickets(r)

FirstFailingCheck(r) ==
  LET failing == { n \in 1..Len(CheckOrder) : FailsCheck(r, CheckOrder[n]) }
  IN IF failing = {} THEN "none"
     ELSE CheckOrder[CHOOSE n \in failing : \A m \in failing : n <= m]

\* the check that a 400 message of the job creator describes
Describes(text) ==
  CASE text = "Missing request body" -> "body"
    [] text \in {"Missing Authorization header",
                    "Invalid Authorization header format"} -> "credential"
    [] text = "Missing required field: username" -> "username"
    [] text = "Missing required field: dates" -> "dates"
    [] text \in {"Missing required field: jiraInstance",
                    "Invalid jiraInstance: must be, \"jira3\", \"jira9\", or \"jiradc\""}
         -> "selector"
    [] OTHER -> "tickets"

\* C13: the 400 answer of POST /jobs describes the first check the request
\* fails, in the order body, credential, username, dates, selector, tickets.
C13_FirstFailureReported ==
  (Answered /\ cr.resp.statusCode = 400)
    => Describes(cr.resp.message) = FirstFailingCheck(cr.req)

\* C14: a request whose body is present but cannot be parsed is answered with
\* a 4xx status, and no Job Record is written and no message enqueued.
C14_UnparseableRejected ==
  (Answered /\ cr.req.body = "garbage")
    => /\ cr.resp.statusCode \in 400..499
       /\ NothingWritten

\* C15: the Job Record (total = d*t, processed = 0, failed = 0, status
\* in-progress) is written before the first message is enqueued: every
\* message, on the queue or in flight, is of a job that has a record, the
\* record is the initial one until the first message is enqueued, and a
\* request whose record write failed leaves the queue empty.
C15_RecordBeforeMessages ==
  /\ \A m \in DOMAIN queue :
       /\ HasCounters(store[queue[m].body.jobId])
       /\ store[queue[m].body.jobId].total
            = tokenCount(cr.req.dates) * Len(cr.req.tickets)
  /\ (cr.jobId \in JobIds /\ queue = <<>>) =>
       store[cr.jobId]
         = newJobStatus(cr.jobId,
                        tokenCount(cr.req.dates) * Len(cr.req.tickets))
  /\ (Answered /\ Valid(cr.req) /\ cr.jobId = "") =>
       /\ cr.resp = serverErrorResponse
       /\ NothingWritten

\* a worker holds a message in flight whose job has its initial record, while
\* the creator is still sending
C15_Witness ==
  /\ cr.pc = "sending"
  /\ \E w \in Workers :
       /\ wk[w].pc = "send"
       /\ queue[wk[w].batch[wk[w].i]].state = "inflight"
       /\ store[message(w).jobId] = newJobStatus(message(w).jobId, 2)

\* C16: whatever the outcome of processing one message of a batch, the
\* messages after it in the batch are still processed in that invocation:
\* an invocation never ends before the last message of its batch.
C16_SiblingsProcessed ==
  [][\A w \in Workers :
       (wk[w].pc # "idle" /\ wk[w].i < Len(wk[w].batch))
         => wk'[w].pc # "idle"]_vars

\* the upstream calls made for the messages of job j that succeeded / failed
Successes(j) ==
  Cardinality({ m \in DOMAIN queue :
                  queue[m].body.jobId = j /\ queue[m].outcome = "ok" })
Failures(j) ==
  Cardinality({ m \in DOMAIN queue :
                  queue[m].body.jobId = j /\ queue[m].outcome = "error" })

\* job j is terminal with every upstream outcome counted
Settled(j) ==
  /\ HasCounters(store[j])
  /\ store[j].status \in Terminal
  /\ store[j].processed + store[j].failed = store[j].total
  /\ store[j].processed = Successes(j)
  /\ store[j].failed = Failures(j)

\* C17: when every message of a job is enqueued and processed to the end
\* exactly once without store errors, under fair scheduling, the job
\* eventually is terminal with processed + failed = total, processed the
\* number of upstream successes and failed the number of upstream failures.
C17_EventuallySettled ==
  \A j \in JobIds : (store[j] # NoRecord) ~> Settled(j)

\* a job of two items settled after one success and one failure, every
\* message deleted
C17_Witness ==
  /\ Settled("j1")
  /\ store["j1"].total = 2
  /\ store["j1"].processed = 1
  /\ store["j1"].failed = 1
  /\ \A m \in DOMAIN queue : queue[m].state = "deleted"

\* the step in which processRecord of worker w returns normally
ReturnsNormally(w) ==
  /\ \/ GetS(w, TRUE) \/ SetS(w, TRUE) \/ GetF(w, TRUE) \/ SetF(w, TRUE)
  /\ wk'[w].pc = "sleep"

\* C18: a processing of a message that returns normally has incremented
\* exactly one counter, by one: processed when the upstream call succeeded,
\* failed when it did not.  A return from the try block has run the increment
\* of processed and no other; a return from the catch block has run the
\* increment of failed.  Stated for a message no other invocation holds.
C18_OneIncrementPerMessage ==
  [][\A w \in Workers :
       (ReturnsNormally(w) /\ queue[wk[w].batch[wk[w].i]].receives = 1) =>
         LET outcome == queue[wk[w].batch[wk[w].i]].outcome IN
         /\ outcome = "ok" => wk[w].pc \in {"getS", "setS"}
         /\ outcome = "error" => wk[w].pc \in {"getF", "setF"}]_vars

\* the increments of job j that are decided and not yet issued
PendingProcessed(j) ==
  Cardinality({ w \in Workers :
                  wk[w].pc = "incProcessed" /\ message(w).jobId = j })
PendingFailed(j) ==
  Cardinality({ w \in Workers :
                  wk[w].pc = "incFailed" /\ message(w).jobId = j })

\* C19: no increment is lost: with every message processed once and no
\* store error, in every interleaving processed is the number of upstream
\* successes and failed the number of upstream failures, less the increments
\* not yet issued; in the final state they are equal.
C19_NoLostIncrement ==
  \A j \in Records :
    /\ store[j].processed = Successes(j) - PendingProcessed(j)
    /\ store[j].failed = Failures(j) - PendingFailed(j)

\* two invocations are at their increments of processed of the same job at
\* once, after two other items of the job were counted
C19_Witness ==
  \E v, w \in Workers :
    /\ v # w
    /\ wk[v].pc = "incProcessed" /\ wk[w].pc = "incProcessed"
    /\ message(v).jobId = message(w).jobId
    /\ store[message(v).jobId].processed = 1
    /\ store[message(v).jobId].failed = 1

\* C20: when each message is processed exactly once, every terminal-status
\* write of a job carries the same value: two pending writes agree, and a
\* pending write agrees with the terminal status already written.
C20_StatusWritesAgree ==
  ExactlyOnce =>
    \A w \in Workers :
      StatusWritePending(w) =>
        LET j == message(w).jobId IN
        /\ \A v \in Workers :
             (StatusWritePending(v) /\ message(v).jobId = j)
               => wk[v].st = wk[w].st
        /\ (HasCounters(store[j]) /\ store[j].status \in Terminal)
             => store[j].status = wk[w].st

\* C21: the length of errors equals failed in every state of a Job Record,
\* and errors is append-only: a step that changes errors or failed appends
\* exactly one entry and increments failed by one, leaving the entries
\* already there as they were.
C21_ErrorsMatchFailed ==
  /\ [](\A j \in Records : Len(store[j].errors) = store[j].failed)
  /\ [][\A j \in Records :
          \/ /\ store'[j].errors = store[j].errors
             /\ store'[j].failed = store[j].failed
          \/ /\ Len(store'[j].errors) = Len(store[j].errors) + 1
             /\ SubSeq(store'[j].errors, 1, Len(store[j].errors))
                  = store[j].errors
             /\ store'[j].failed = store[j].failed + 1]_vars

\* two failures of one job are recorded, by two invocations
C21_Witness ==
  \E j \in Records :
    /\ store[j].failed = 2
    /\ Len(store[j].errors) = 2
    /\ store[j].total = 2

\* C22: the processor does not deduplicate: an acknowledged increment of
\* processed adds one whether or not the message was counted before, so
\* processed can exceed the number of distinct messages.
C22_NoDeduplication ==
  [][\A w \in Workers :
       (wk[w].pc = "incProcessed" /\ wk'[w].pc = "getS") =>
         store'[message(w).jobId].processed
           = store[message(w).jobId].processed + 1]_vars

\* one message, received twice, both upstream calls successful: processed is
\* 2 for a job of one item
C22_Witness ==
  /\ DOMAIN queue = {1}
  /\ queue[1].receives = 2
  /\ store["j1"] # NoRecord
  /\ store["j1"].total = 1
  /\ store["j1"].processed = 2
  /\ store["j1"].failed = 0

\* C23: when the Job Record was written and the enqueue of one of its
\* messages failed, the record keeps total = d*t and its status stays
\* in-progress in every later state.
C23_StalledInProgress ==
  (cr.rejected /\ cr.jobId \in JobIds) =>
    /\ HasCounters(store[cr.jobId])
    /\ store[cr.jobId].total = tokenCount(cr.req.dates) * Len(cr.req.tickets)
    /\ store[cr.jobId].status = "in-progress"

\* C24: no step of a worker changes total, jobId or createdAt of a Job
\* Record, and no step of the job creator changes a record that exists.
C24_CreationFieldsFrozen ==
  [][\A j \in Records :
       /\ HasCounters(store'[j])
       /\ store'[j].total = store[j].total
       /\ store'[j].jobId = store[j].jobId
       /\ store'[j].createdAt = store[j].createdAt
       /\ cr' # cr => store'[j] = store[j]]_vars

\* a record that went through both increments and the status write, while
\* the creator was still sending
C24_Witness ==
  /\ cr.pc = "sending"
  /\ \E j \in Records :
       /\ store[j].processed >= 1
       /\ store[j].failed >= 1
       /\ store[j].status \in Terminal
       /\ store[j].updatedAt
       /\ store[j].total = 2
       /\ store[j].createdAt = "createdAt"

\* C26: every Job Record carries the attribute the table's time-to-live
\* uses (ttl), so that the store removes it a retention period after its
\* creation.
C26_RecordsExpire ==
  \A j \in JobIds : store[j] # NoRecord => "ttl" \in DOMAIN store[j]

\* a store command of the catch block of worker w throws
FailurePathThrows(w) ==
  \/ IncFailed(w, FALSE)
  \/ IncFailed(w, TRUE) /\ ~HasCounters(store[message(w).jobId])
  \/ GetF(w, FALSE)
  \/ SetF(w, FALSE)

\* C27: an exception of a store command on the failure path is not retried
\* and leaves the handler: the invocation ends at once, nothing more is
\* written, the records after it in the batch are not processed, and no
\* message of the batch is deleted (no subset is reported as failed: every
\* message of the batch still in flight goes back to the queue).
C27_FailurePathEscapes ==
  [][\A w \in Workers :
       FailurePathThrows(w) =>
         /\ wk'[w].pc = "idle"
         /\ store' = store
         /\ \A x \in 1..Len(wk[w].batch) :
              LET m == wk[w].batch[x] IN
              /\ queue'[m].outcome = queue[m].outcome
              /\ queue[m].state = "inflight" =>
                   queue'[m].state \in {"visible", "dlq"}
              /\ queue[m].state # "inflight" => queue'[m] = queue[m]]_vars

\* a batch of two went back whole after the failure path of its first record
\* threw: the second record was never processed
C27_Witness ==
  /\ DOMAIN queue = 1..2
  /\ \A w \in Workers : wk[w].pc = "idle"
  /\ queue[1].receives = 1 /\ queue[1].state = "visible"
  /\ queue[1].outcome = "error"
  /\ queue[2].receives = 1 /\ queue[2].state = "visible"
  /\ queue[2].outcome = ""

\* C28: the worker never creates a Job Record: whatever it does with a
\* message whose jobId has no record, the store has no item for that jobId.
C28_NoRecordCreated ==
  \A m \in DOMAIN queue :
    queue[m].body.jobId = "j2" => store["j2"] = NoRecord

\* the message without a record was processed twice, the upstream call
\* successful the second time, and went to the dead-letter queue
C28_Witness ==
  /\ queue[1].body.jobId = "j2"
  /\ queue[1].receives = 2
  /\ queue[1].outcome = "ok"
  /\ queue[1].state = "dlq"
  /\ store["j2"] = NoRecord
  /\ store["j1"] # NoRecord

\* a status after which the specification allows another attempt
Retryable(status) == status = 429 \/ status \in 500..599

Finished == http.pc \in {"returned", "threw"}

\* C25: sendRequest finishes after at most maxRetries + 1 attempts: every
\* attempt but the last ended with 429 or 5xx; it returns on the first 2xx
\* response; it throws the error of the last attempt, which is either not
\* retryable (another 4xx, no response) or attempt number maxRetries + 1.
C25_SendRequestTerminates ==
  /\ [](/\ Len(http.log) <= http.maxRetries + 1
        /\ \A n \in 1..(Len(http.log) - 1) : Retryable(http.log[n])
        /\ http.pc = "sleeping" =>
             /\ Retryable(http.log[Len(http.log)])
             /\ Len(http.log) <= http.maxRetries
        /\ http.pc = "posting" => Len(http.log) = http.attempt
        /\ http.pc = "returned" => resolves(http.log[Len(http.log)])
        /\ http.pc = "threw" =>
             /\ http.log # <<>>
             /\ ~resolves(http.log[Len(http.log)])
             /\ \/ ~Retryable(http.log[Len(http.log)])
                \/ Len(http.log) = http.maxRetries + 1)
  /\ (http.pc = "posting") ~> Finished

\* the default of ten retries used up: the eleventh attempt's error is thrown
C25_Witness ==
  /\ http.pc = "threw"
  /\ http.maxRetries = defaultMaxRetries
  /\ Len(http.log) = defaultMaxRetries + 1
  /\ http.log[1] = 429
  /\ http.log[Len(http.log)] = 500

\* the conditional write of shortener p is decided in this step
PutStep(p) == shorten[p].pc = "putting" /\ shorten'[p].pc = "done"

Succeeded(resp) == resp.statusCode \in 200..299

\* C29: a creation never overwrites a mapping: when the code of a creation
\* already has a record, its write changes nothing in the table and the
\* request does not report success; a creation reports success only when
\* its code had no record, which then holds its OriginalUrl with Clicks 0,
\* so of two creations with the same code the second to write fails.
C29_NoOverwrite ==
  [][\A p \in Shorteners :
       PutStep(p) =>
         LET code == shorten[p].code
         IN /\ urlTable[code] # NoUrl =>
                 /\ urlTable' = urlTable
                 /\ ~Succeeded(shorten'[p].resp)
            /\ Succeeded(shorten'[p].resp) =>
                 /\ urlTable[code] = NoUrl
                 /\ urlTable'[code].OriginalUrl = shorten[p].originalUrl
                 /\ urlTable'[code].Clicks = 0
                 /\ \A c \in Codes \ {code} : urlTable'[c] = urlTable[c]
                 /\ \A q \in Shorteners \ {p} :
                      shorten[q].pc = "putting" /\ shorten[q].code = code =>
                        ~conditionAllows(urlTable'[code])]_vars

\* two creations drew the same code for different URLs: the first was
\* created, the second was refused and the record, clicked since, is intact
C29_Witness ==
  /\ shorten["s1"].pc = "done" /\ shorten["s2"].pc = "done"
  /\ shorten["s1"].code = shorten["s2"].code
  /\ shorten["s1"].originalUrl # shorten["s2"].originalUrl
  /\ shorten["s1"].resp.statusCode = 201
  /\ shorten["s2"].resp.statusCode = 500
  /\ urlTable[shorten["s1"].code] # NoUrl
  /\ urlTable[shorten["s1"].code].OriginalUrl = shorten["s1"].originalUrl
  /\ urlTable[shorten["s1"].code].Clicks = 1

\* C30: every record of the URL table carries an OriginalUrl (it was
\* written by a creation): a deleted code has no record until it is
\* created again.
C30_RecordsCarryOriginalUrl ==
  \A c \in Codes :
    urlTable[c] # NoUrl => "OriginalUrl" \in DOMAIN urlTable[c]

====
